---------------------------- MODULE Spec2Model ----------------------------
(***************************************************************************)
(* DeepClaude (app/deepclaude/deepclaude.py): the orchestration of the     *)
(* DeepSeek reasoning stream and the Claude answer stream.                 *)
(*                                                                         *)
(* One behaviour is one call of either chat_completions_with_stream (two   *)
(* asyncio tasks and the generator body that multiplexes their output) or  *)
(* chat_completions_without_stream (one coroutine).  The two clients are   *)
(* the environment: each stream_chat is an async generator that yields     *)
(* (content_type, content) pairs, and may stop or raise after any of them. *)
(* Texts are sequences of characters, so that joining and formatting are   *)
(* real concatenations.                                                    *)
(***************************************************************************)
EXTENDS Naturals, Integers, Sequences, FiniteSets

\* ------------------------------------------------------------------ bounds
MaxMsgs == 2        \* length of the caller's messages list
MaxReasoning == 2   \* "reasoning" chunks the DeepSeek stream may yield
MaxAnswer == 2      \* "answer" chunks the Claude stream may yield

\* texts a chunk may carry (the empty text included)
Texts == { <<>>, <<"a">>, <<"b">> }
\* texts an "answer" chunk may carry
AnswerTexts == { <<"a">>, <<"b">> }
\* the text of the "content" chunk, which the code never reads
TransitionTexts == { <<"go">> }
\* values of a message's "role" key; NoRole is a message without the key
NoRole == "<missing>"
Roles == { "system", "user", NoRole }
MsgIds == << "m1", "m2", "m3", "m4" >>

\* --------------------------------------------------------- pure functions
\* dict.get(key, default) on a message
Get(message, key, default) ==
    IF key \in DOMAIN message THEN message[key] ELSE default

\* (a join that puts each later part in front)
RECURSIVE Join_Reversed(_)
Join_Reversed(parts) ==
    IF parts = <<>> THEN <<>> ELSE Join_Reversed(Tail(parts)) \o Head(parts)

\* "".join(parts)
RECURSIVE Join(_)
Join(parts) ==
    IF parts = <<>> THEN <<>> ELSE Head(parts) \o Join(Tail(parts))

\* the text substituted for a reasoning that could not be obtained
FallbackText == << "F", "A", "I", "L" >>

\* process_claude: if not reasoning: reasoning = <fallback>
OrFallback(r) == IF r = <<>> THEN FallbackText ELSE r

\* f"Here's my reasoning process:\n{reasoning}\n\nBased on this reasoning, ..."
TemplateHead == << "H", ":" >>
TemplateTail == << ".", "B" >>
SyntheticMessage(r) ==
    [role |-> "assistant", content |-> TemplateHead \o r \o TemplateTail]

\* (a filter that takes a message without a role for a system message)
StripSystem_MissingRoleIsSystem(msgs) ==
    SelectSeq(msgs, LAMBDA message : Get(message, "role", "system") # "system")

\* [message for message in claude_messages if message.get("role", "") != "system"]
StripSystem(msgs) ==
    SelectSeq(msgs, LAMBDA message : Get(message, "role", "") # "system")

\* (no copy: claude_messages is the caller's list itself, and the append is
\* done on it)
CallerListAfterAppend_NoCopy(msgs, item) == Append(msgs, item)

\* claude_messages = messages.copy(); claude_messages.append(item): the
\* caller's list once the append is done, on the copy, a list of its own
CallerListAfterAppend(msgs, item) == msgs

\* messages.copy(); append the synthetic message; drop the system messages
BuildClaudeMessages(msgs, r) ==
    StripSystem(Append(msgs, SyntheticMessage(r)))

\* the frames put on output_queue and yielded to the caller
ReasoningEvent(text) ==
    [frame |-> "data", object |-> "chat.completion.chunk",
     model |-> "deepseek_model",
     delta |-> [role |-> "assistant", reasoning_content |-> text, content |-> <<>>]]
AnswerEvent(text) ==
    [frame |-> "data", object |-> "chat.completion.chunk",
     model |-> "claude_model",
     delta |-> [role |-> "assistant", content |-> text]]
None == [frame |-> "None"]
DoneFrame == [frame |-> "data: [DONE]"]

\* the response object of chat_completions_without_stream
Response(ans, r) ==
    [object |-> "chat.completion", model |-> "claude_model",
     message |-> [role |-> "assistant", content |-> ans, reasoning_content |-> r],
     finish_reason |-> "stop",
     usage |-> [prompt_tokens |-> -1, completion_tokens |-> -1, total_tokens |-> -1]]

\* the caller's message i: its role key (or none) and a content naming it
Message(role, i) ==
    IF role = NoRole THEN [content |-> << MsgIds[i] >>]
    ELSE [role |-> role, content |-> << MsgIds[i] >>]

MessageLists ==
    UNION { { [i \in 1..n |-> Message(rs[i], i)] : rs \in [1..n -> Roles] }
            : n \in 0..MaxMsgs }

\* ------------------------------------------------------------------ state
VARIABLES
    mode,               \* "stream" or "nostream": the method called
    messages,           \* the caller's list
    dsYielded,          \* what deepseek_client.stream_chat has yielded so far
    dsExit,             \* how its consumption ended
    clYielded,          \* what claude_client.stream_chat has yielded so far
    clExit,             \* how its consumption ended
    reasoning_content,  \* the list of reasoning texts
    claude_queue,       \* asyncio.Queue from process_deepseek to process_claude
    slot_puts,          \* every value put on claude_queue, in order
    slot_gets,          \* every value got from claude_queue, in order
    output_queue,       \* asyncio.Queue of frames and None
    reasoning,          \* the reasoning text embedded in the synthetic message
    claude_messages,    \* the list passed to claude_client.stream_chat
    pcDeepseek,         \* position of process_deepseek
    pcClaude,           \* position of process_claude
    pcMain,             \* position of the method's own body
    finished_tasks,
    yielded,            \* the frames the caller has received
    answer,
    result              \* what chat_completions_without_stream gave its caller

vars == << mode, messages, dsYielded, dsExit, clYielded, clExit,
           reasoning_content, claude_queue, slot_puts, slot_gets, output_queue,
           reasoning, claude_messages, pcDeepseek, pcClaude, pcMain,
           finished_tasks, yielded, answer, result >>

Chunk(kind, text) == [kind |-> kind, text |-> text]

TextsOf(chunks, kind) ==
    LET sel == SelectSeq(chunks, LAMBDA c : c.kind = kind)
    IN  [i \in 1..Len(sel) |-> sel[i].text]

NumOf(chunks, kind) == Len(SelectSeq(chunks, LAMBDA c : c.kind = kind))

NoResult == [kind |-> "none"]

Init ==
    /\ mode \in { "stream", "nostream" }
    /\ messages \in MessageLists
    /\ dsYielded = <<>>
    /\ dsExit = "none"
    /\ clYielded = <<>>
    /\ clExit = "none"
    /\ reasoning_content = <<>>
    /\ claude_queue = <<>>
    /\ slot_puts = <<>>
    /\ slot_gets = <<>>
    /\ output_queue = <<>>
    /\ reasoning = <<>>
    /\ claude_messages = <<>>
    /\ pcDeepseek = IF mode = "stream" THEN "loop" ELSE "idle"
    /\ pcClaude = IF mode = "stream" THEN "wait" ELSE "idle"
    /\ pcMain = IF mode = "stream" THEN "mux" ELSE "reasoning"
    /\ finished_tasks = 0
    /\ yielded = <<>>
    /\ answer = <<>>
    /\ result = NoResult

\* --------------------------------------------- process_deepseek (73-104)
\* a "reasoning" chunk: append it and put its frame on output_queue
DsReasoning ==
    /\ pcDeepseek = "loop"
    /\ NumOf(dsYielded, "reasoning") < MaxReasoning
    /\ \E content \in Texts :
        /\ dsYielded' = Append(dsYielded, Chunk("reasoning", content))
        /\ reasoning_content' = Append(reasoning_content, content)
        /\ output_queue' = Append(output_queue, ReasoningEvent(content))
    /\ UNCHANGED << mode, messages, dsExit, clYielded, clExit, claude_queue,
                    slot_puts, slot_gets, reasoning, claude_messages,
                    pcDeepseek, pcClaude, pcMain, finished_tasks, yielded,
                    answer, result >>

\* (a "content" branch without the break: the loop reads on)
DsContent_NoBreak ==
    /\ pcDeepseek = "loop"
    /\ NumOf(dsYielded, "content") < 1
    /\ \E content \in TransitionTexts :
        dsYielded' = Append(dsYielded, Chunk("content", content))
    /\ claude_queue' = Append(claude_queue, Join(reasoning_content))
    /\ slot_puts' = Append(slot_puts, Join(reasoning_content))
    /\ UNCHANGED << mode, messages, dsExit, clYielded, clExit,
                    reasoning_content, slot_gets, output_queue, reasoning,
                    claude_messages, pcDeepseek, pcClaude, pcMain,
                    finished_tasks, yielded, answer, result >>

\* (a "content" branch that also puts a frame for the chunk on output_queue)
DsContent_EmitsTransition ==
    /\ pcDeepseek = "loop"
    /\ \E content \in TransitionTexts :
        /\ dsYielded' = Append(dsYielded, Chunk("content", content))
        /\ output_queue' =
             output_queue \o
               << [frame |-> "data", object |-> "chat.completion.chunk",
                   model |-> "deepseek_model",
                   delta |-> [role |-> "assistant", reasoning_content |-> <<>>,
                              content |-> content]],
                  None >>
    /\ claude_queue' = Append(claude_queue, Join(reasoning_content))
    /\ slot_puts' = Append(slot_puts, Join(reasoning_content))
    /\ dsExit' = "transition"
    /\ pcDeepseek' = "done"
    /\ UNCHANGED << mode, messages, clYielded, clExit, reasoning_content,
                    slot_gets, reasoning, claude_messages, pcClaude, pcMain,
                    finished_tasks, yielded, answer, result >>

\* a "content" chunk: put the joined reasoning on claude_queue, break, and
\* put None on output_queue (no put on these unbounded queues suspends)
DsContent ==
    /\ pcDeepseek = "loop"
    /\ \E content \in TransitionTexts :
        dsYielded' = Append(dsYielded, Chunk("content", content))
    /\ claude_queue' = Append(claude_queue, Join(reasoning_content))
    /\ slot_puts' = Append(slot_puts, Join(reasoning_content))
    /\ dsExit' = "transition"
    /\ output_queue' = Append(output_queue, None)
    /\ pcDeepseek' = "done"
    /\ UNCHANGED << mode, messages, clYielded, clExit, reasoning_content,
                    slot_gets, reasoning, claude_messages, pcClaude, pcMain,
                    finished_tasks, yielded, answer, result >>

\* (an except branch that hands over what was collected so far)
DsRaise_PutsCollected ==
    /\ pcDeepseek = "loop"
    /\ claude_queue' = Append(claude_queue, Join(reasoning_content))
    /\ slot_puts' = Append(slot_puts, Join(reasoning_content))
    /\ dsExit' = "failed"
    /\ output_queue' = Append(output_queue, None)
    /\ pcDeepseek' = "done"
    /\ UNCHANGED << mode, messages, dsYielded, clYielded, clExit,
                    reasoning_content, slot_gets, reasoning, claude_messages,
                    pcClaude, pcMain, finished_tasks, yielded, answer, result >>

\* stream_chat raises: except Exception puts "" on claude_queue; then None
DsRaise ==
    /\ pcDeepseek = "loop"
    /\ claude_queue' = Append(claude_queue, <<>>)
    /\ slot_puts' = Append(slot_puts, <<>>)
    /\ dsExit' = "failed"
    /\ output_queue' = Append(output_queue, None)
    /\ pcDeepseek' = "done"
    /\ UNCHANGED << mode, messages, dsYielded, clYielded, clExit,
                    reasoning_content, slot_gets, reasoning, claude_messages,
                    pcClaude, pcMain, finished_tasks, yielded, answer, result >>

\* stream_chat stops without a "content" chunk: the async for just ends; None
DsExhausted ==
    /\ pcDeepseek = "loop"
    /\ dsExit' = "exhausted"
    /\ output_queue' = Append(output_queue, None)
    /\ pcDeepseek' = "done"
    /\ UNCHANGED << mode, messages, dsYielded, clYielded, clExit,
                    reasoning_content, claude_queue, slot_puts, slot_gets,
                    reasoning, claude_messages, pcClaude, pcMain,
                    finished_tasks, yielded, answer, result >>

ProcessDeepseek ==
    DsReasoning \/ DsContent \/ DsRaise \/ DsExhausted

\* ---------------------------------------------- process_claude (106-149)
\* (a get that does not wait: an empty queue gives an empty reasoning)
ClGet_NoWait ==
    /\ pcClaude = "wait"
    /\ LET got == IF claude_queue = <<>> THEN <<>> ELSE Head(claude_queue)
       IN  /\ claude_queue' = IF claude_queue = <<>> THEN <<>> ELSE Tail(claude_queue)
           /\ slot_gets' = Append(slot_gets, got)
           /\ reasoning' = OrFallback(got)
    /\ claude_messages' = BuildClaudeMessages(messages, reasoning')
    /\ messages' = CallerListAfterAppend(messages, SyntheticMessage(reasoning'))
    /\ pcClaude' = "stream"
    /\ UNCHANGED << mode, dsYielded, dsExit, clYielded, clExit,
                    reasoning_content, slot_puts, output_queue, pcDeepseek,
                    pcMain, finished_tasks, yielded, answer, result >>

\* claude_queue.get() returns; the fallback; the message list; stream_chat called
ClGet ==
    /\ pcClaude = "wait"
    /\ claude_queue # <<>>
    /\ claude_queue' = Tail(claude_queue)
    /\ slot_gets' = Append(slot_gets, Head(claude_queue))
    /\ reasoning' = OrFallback(Head(claude_queue))
    /\ claude_messages' = BuildClaudeMessages(messages, reasoning')
    /\ messages' = CallerListAfterAppend(messages, SyntheticMessage(reasoning'))
    /\ pcClaude' = "stream"
    /\ UNCHANGED << mode, dsYielded, dsExit, clYielded, clExit,
                    reasoning_content, slot_puts, output_queue, pcDeepseek,
                    pcMain, finished_tasks, yielded, answer, result >>

\* an "answer" chunk: put its frame on output_queue
ClAnswer ==
    /\ pcClaude = "stream"
    /\ NumOf(clYielded, "answer") < MaxAnswer
    /\ \E content \in AnswerTexts :
        /\ clYielded' = Append(clYielded, Chunk("answer", content))
        /\ output_queue' = Append(output_queue, AnswerEvent(content))
    /\ UNCHANGED << mode, messages, dsYielded, dsExit, clExit,
                    reasoning_content, claude_queue, slot_puts, slot_gets,
                    reasoning, claude_messages, pcDeepseek, pcClaude, pcMain,
                    finished_tasks, yielded, answer, result >>

\* (an except branch that raises again: the task dies without its None)
ClRaise_Reraises ==
    /\ pcClaude = "stream"
    /\ clExit' = "failed"
    /\ pcClaude' = "raised"
    /\ UNCHANGED << mode, messages, dsYielded, dsExit, clYielded,
                    reasoning_content, claude_queue, slot_puts, slot_gets,
                    output_queue, reasoning, claude_messages, pcDeepseek,
                    pcMain, finished_tasks, yielded, answer, result >>

\* stream_chat raises: except Exception logs; then None on output_queue
ClRaise ==
    /\ pcClaude = "stream"
    /\ clExit' = "failed"
    /\ output_queue' = Append(output_queue, None)
    /\ pcClaude' = "done"
    /\ UNCHANGED << mode, messages, dsYielded, dsExit, clYielded,
                    reasoning_content, claude_queue, slot_puts, slot_gets,
                    reasoning, claude_messages, pcDeepseek, pcMain,
                    finished_tasks, yielded, answer, result >>

\* stream_chat is exhausted; then None on output_queue
ClExhausted ==
    /\ pcClaude = "stream"
    /\ clExit' = "exhausted"
    /\ output_queue' = Append(output_queue, None)
    /\ pcClaude' = "done"
    /\ UNCHANGED << mode, messages, dsYielded, dsExit, clYielded,
                    reasoning_content, claude_queue, slot_puts, slot_gets,
                    reasoning, claude_messages, pcDeepseek, pcMain,
                    finished_tasks, yielded, answer, result >>

ProcessClaude ==
    ClGet \/ ClAnswer \/ ClRaise \/ ClExhausted

\* ------------------- chat_completions_with_stream, the generator (155-165)
\* (a loop that counts every item taken, not only None)
MuxGet_CountsEvery ==
    /\ pcMain = "mux"
    /\ finished_tasks < 2
    /\ output_queue # <<>>
    /\ output_queue' = Tail(output_queue)
    /\ finished_tasks' = finished_tasks + 1
    /\ yielded' = IF Head(output_queue) = None THEN yielded
                  ELSE Append(yielded, Head(output_queue))
    /\ UNCHANGED << mode, messages, dsYielded, dsExit, clYielded, clExit,
                    reasoning_content, claude_queue, slot_puts, slot_gets,
                    reasoning, claude_messages, pcDeepseek, pcClaude, pcMain,
                    answer, result >>

\* (a get that takes the newest item of the queue instead of the oldest)
MuxGet_TakesLast ==
    /\ pcMain = "mux"
    /\ finished_tasks < 2
    /\ output_queue # <<>>
    /\ output_queue' = SubSeq(output_queue, 1, Len(output_queue) - 1)
    /\ IF output_queue[Len(output_queue)] = None
         THEN /\ finished_tasks' = finished_tasks + 1
              /\ yielded' = yielded
         ELSE /\ finished_tasks' = finished_tasks
              /\ yielded' = Append(yielded, output_queue[Len(output_queue)])
    /\ UNCHANGED << mode, messages, dsYielded, dsExit, clYielded, clExit,
                    reasoning_content, claude_queue, slot_puts, slot_gets,
                    reasoning, claude_messages, pcDeepseek, pcClaude, pcMain,
                    answer, result >>

\* item = await output_queue.get(): count a None, yield anything else
MuxGet ==
    /\ pcMain = "mux"
    /\ finished_tasks < 2
    /\ output_queue # <<>>
    /\ output_queue' = Tail(output_queue)
    /\ IF Head(output_queue) = None
         THEN /\ finished_tasks' = finished_tasks + 1
              /\ yielded' = yielded
         ELSE /\ finished_tasks' = finished_tasks
              /\ yielded' = Append(yielded, Head(output_queue))
    /\ UNCHANGED << mode, messages, dsYielded, dsExit, clYielded, clExit,
                    reasoning_content, claude_queue, slot_puts, slot_gets,
                    reasoning, claude_messages, pcDeepseek, pcClaude, pcMain,
                    answer, result >>

\* (a loop that is left after the first None)
MuxDone_AfterFirst ==
    /\ pcMain = "mux"
    /\ ~ (finished_tasks < 1)
    /\ yielded' = Append(yielded, DoneFrame)
    /\ pcMain' = "closed"
    /\ UNCHANGED << mode, messages, dsYielded, dsExit, clYielded, clExit,
                    reasoning_content, claude_queue, slot_puts, slot_gets,
                    output_queue, reasoning, claude_messages, pcDeepseek,
                    pcClaude, finished_tasks, answer, result >>

\* the loop is left: yield b'data: [DONE]\n\n'
MuxDone ==
    /\ pcMain = "mux"
    /\ ~ (finished_tasks < 2)
    /\ yielded' = Append(yielded, DoneFrame)
    /\ pcMain' = "closed"
    /\ UNCHANGED << mode, messages, dsYielded, dsExit, clYielded, clExit,
                    reasoning_content, claude_queue, slot_puts, slot_gets,
                    output_queue, reasoning, claude_messages, pcDeepseek,
                    pcClaude, finished_tasks, answer, result >>

Multiplexer == MuxGet \/ MuxDone

\* ------------------------------ chat_completions_without_stream (185-245)
\* a "reasoning" chunk: append it
AgReasoning ==
    /\ pcMain = "reasoning"
    /\ NumOf(dsYielded, "reasoning") < MaxReasoning
    /\ \E content \in Texts :
        /\ dsYielded' = Append(dsYielded, Chunk("reasoning", content))
        /\ reasoning_content' = Append(reasoning_content, content)
    /\ UNCHANGED << mode, messages, dsExit, clYielded, clExit, claude_queue,
                    slot_puts, slot_gets, output_queue, reasoning,
                    claude_messages, pcDeepseek, pcClaude, pcMain,
                    finished_tasks, yielded, answer, result >>

\* a "content" chunk: break
AgContent ==
    /\ pcMain = "reasoning"
    /\ \E content \in TransitionTexts :
        dsYielded' = Append(dsYielded, Chunk("content", content))
    /\ dsExit' = "transition"
    /\ pcMain' = "build"
    /\ UNCHANGED << mode, messages, clYielded, clExit, reasoning_content,
                    claude_queue, slot_puts, slot_gets, output_queue, reasoning,
                    claude_messages, pcDeepseek, pcClaude, finished_tasks,
                    yielded, answer, result >>

\* (an except branch that keeps what was collected, without the fallback)
AgRaise_KeepsCollected ==
    /\ pcMain = "reasoning"
    /\ dsExit' = "failed"
    /\ pcMain' = "build"
    /\ UNCHANGED << mode, messages, dsYielded, clYielded, clExit,
                    reasoning_content, claude_queue, slot_puts, slot_gets,
                    output_queue, reasoning, claude_messages, pcDeepseek,
                    pcClaude, finished_tasks, yielded, answer, result >>

\* (an except branch that raises to the caller)
AgRaise_Propagates ==
    /\ pcMain = "reasoning"
    /\ dsExit' = "failed"
    /\ result' = [kind |-> "raise"]
    /\ pcMain' = "raised"
    /\ UNCHANGED << mode, messages, dsYielded, clYielded, clExit,
                    reasoning_content, claude_queue, slot_puts, slot_gets,
                    output_queue, reasoning, claude_messages, pcDeepseek,
                    pcClaude, finished_tasks, yielded, answer >>

\* stream_chat raises: reasoning_content = [<fallback>]
AgRaise ==
    /\ pcMain = "reasoning"
    /\ reasoning_content' = << FallbackText >>
    /\ dsExit' = "failed"
    /\ pcMain' = "build"
    /\ UNCHANGED << mode, messages, dsYielded, clYielded, clExit, claude_queue,
                    slot_puts, slot_gets, output_queue, reasoning,
                    claude_messages, pcDeepseek, pcClaude, finished_tasks,
                    yielded, answer, result >>

\* stream_chat stops without a "content" chunk
AgExhausted ==
    /\ pcMain = "reasoning"
    /\ dsExit' = "exhausted"
    /\ pcMain' = "build"
    /\ UNCHANGED << mode, messages, dsYielded, clYielded, clExit,
                    reasoning_content, claude_queue, slot_puts, slot_gets,
                    output_queue, reasoning, claude_messages, pcDeepseek,
                    pcClaude, finished_tasks, yielded, answer, result >>

\* reasoning = "".join(reasoning_content); the message list; stream_chat called
AgBuild ==
    /\ pcMain = "build"
    /\ reasoning' = Join(reasoning_content)
    /\ claude_messages' = BuildClaudeMessages(messages, reasoning')
    /\ messages' = CallerListAfterAppend(messages, SyntheticMessage(reasoning'))
    /\ pcMain' = "answer"
    /\ UNCHANGED << mode, dsYielded, dsExit, clYielded, clExit,
                    reasoning_content, claude_queue, slot_puts, slot_gets,
                    output_queue, pcDeepseek, pcClaude, finished_tasks,
                    yielded, answer, result >>

\* (an "answer" branch that keeps only the newest fragment: answer = content)
AgAnswer_Overwrites ==
    /\ pcMain = "answer"
    /\ NumOf(clYielded, "answer") < MaxAnswer
    /\ \E content \in AnswerTexts :
        /\ clYielded' = Append(clYielded, Chunk("answer", content))
        /\ answer' = content
    /\ UNCHANGED << mode, messages, dsYielded, dsExit, clExit,
                    reasoning_content, claude_queue, slot_puts, slot_gets,
                    output_queue, reasoning, claude_messages, pcDeepseek,
                    pcClaude, pcMain, finished_tasks, yielded, result >>

\* an "answer" chunk: answer += content
AgAnswer ==
    /\ pcMain = "answer"
    /\ NumOf(clYielded, "answer") < MaxAnswer
    /\ \E content \in AnswerTexts :
        /\ clYielded' = Append(clYielded, Chunk("answer", content))
        /\ answer' = answer \o content
    /\ UNCHANGED << mode, messages, dsYielded, dsExit, clExit,
                    reasoning_content, claude_queue, slot_puts, slot_gets,
                    output_queue, reasoning, claude_messages, pcDeepseek,
                    pcClaude, pcMain, finished_tasks, yielded, result >>

\* (an except branch that returns what was collected so far)
AgAnswerRaise_ReturnsPartial ==
    /\ pcMain = "answer"
    /\ clExit' = "failed"
    /\ result' = [kind |-> "return", value |-> Response(answer, reasoning)]
    /\ pcMain' = "returned"
    /\ UNCHANGED << mode, messages, dsYielded, dsExit, clYielded,
                    reasoning_content, claude_queue, slot_puts, slot_gets,
                    output_queue, reasoning, claude_messages, pcDeepseek,
                    pcClaude, finished_tasks, yielded, answer >>

\* stream_chat raises: except Exception logs and raises e
AgAnswerRaise ==
    /\ pcMain = "answer"
    /\ clExit' = "failed"
    /\ result' = [kind |-> "raise"]
    /\ pcMain' = "raised"
    /\ UNCHANGED << mode, messages, dsYielded, dsExit, clYielded,
                    reasoning_content, claude_queue, slot_puts, slot_gets,
                    output_queue, reasoning, claude_messages, pcDeepseek,
                    pcClaude, finished_tasks, yielded, answer >>

\* stream_chat is exhausted: return the response
AgReturn ==
    /\ pcMain = "answer"
    /\ clExit' = "exhausted"
    /\ result' = [kind |-> "return", value |-> Response(answer, reasoning)]
    /\ pcMain' = "returned"
    /\ UNCHANGED << mode, messages, dsYielded, dsExit, clYielded,
                    reasoning_content, claude_queue, slot_puts, slot_gets,
                    output_queue, reasoning, claude_messages, pcDeepseek,
                    pcClaude, finished_tasks, yielded, answer >>

WithoutStream ==
    \/ AgReasoning \/ AgContent \/ AgRaise \/ AgExhausted \/ AgBuild
    \/ AgAnswer \/ AgAnswerRaise \/ AgReturn

Next == ProcessDeepseek \/ ProcessClaude \/ Multiplexer \/ WithoutStream

Spec == Init /\ [][Next]_vars

\* asyncio runs every task that can run, and the callers run the generator
\* and the coroutine to their end
FairSpec ==
    /\ Spec
    /\ WF_vars(ProcessDeepseek)
    /\ WF_vars(ProcessClaude)
    /\ WF_vars(Multiplexer)
    /\ WF_vars(WithoutStream)

\* asyncio runs every task that can run, whatever the caller does: nothing
\* makes the caller read the generator on
TasksFairSpec ==
    /\ Spec
    /\ WF_vars(ProcessDeepseek)
    /\ WF_vars(ProcessClaude)

\* ------------------------------------------------ vocabulary of the claims
IsData(item) == item.frame = "data"
IsReasoningEvent(item) == IsData(item) /\ item.model = "deepseek_model"
IsAnswerEvent(item) == IsData(item) /\ item.model = "claude_model"
Last(seq) == seq[Len(seq)]
Positions(seq, item) == { i \in 1..Len(seq) : seq[i] = item }
Streaming == mode = "stream"
Aggregated == mode = "nostream"
\* the None of process_deepseek / process_claude has been put on output_queue
DeepseekSignalled == Streaming /\ pcDeepseek = "done"
ClaudeSignalled == Streaming /\ pcClaude = "done"
\* claude_client.stream_chat has been called with claude_messages
ClaudeInvoked ==
    \/ Streaming /\ pcClaude \in { "stream", "done" }
    \/ Aggregated /\ pcMain \in { "answer", "returned", "raised" }
\* the generator has yielded the terminal frame and returned
StreamEnded == Streaming /\ pcMain = "closed"
ReasoningFailed == dsExit = "failed"
AnswerFailed == clExit = "failed"
\* nothing can take a step any more: every task, the generator and the
\* coroutine are over or wait for something that will not come.  Every step
\* consumes a chunk, a queue item or a position, so every run gets here.
Quiescent == ~ ENABLED Next
\* texts put end to end, first to last
RECURSIVE ConcatInOrder(_)
ConcatInOrder(texts) ==
    IF texts = <<>> THEN <<>>
    ELSE ConcatInOrder(SubSeq(texts, 1, Len(texts) - 1)) \o Last(texts)
\* the synthetic message's content for a reasoning text
Embedding(text) == TemplateHead \o text \o TemplateTail

\* ----------------------------------------------------------------- claims
C1_MarkerOnlyLast ==
    Streaming =>
        /\ Cardinality(Positions(yielded, DoneFrame)) <= 1
        /\ Positions(yielded, DoneFrame) \subseteq { Len(yielded) }
C1_MarkerYielded ==
    Streaming => (yielded # <<>> /\ Last(yielded) = DoneFrame)
\* C1: in streaming mode, whatever the two producers do (stop, raise, at any
\* point), the caller's sequence holds 'data: [DONE]' exactly once, as its
\* last item, and every session eventually gets there.
C1_TerminalMarkerAlways == []C1_MarkerOnlyLast /\ <>[]C1_MarkerYielded

\* C2: in every streaming session claude_queue is put exactly once by
\* process_deepseek and got exactly once by process_claude: once
\* process_deepseek is over there has been one put (not none, not two), and
\* once process_claude is over there has been one get.
C2_HandoffExactlyOnce ==
    Streaming =>
        /\ Len(slot_puts) <= 1
        /\ Len(slot_gets) <= 1
        /\ (pcDeepseek = "done" => Len(slot_puts) = 1)
        /\ (pcClaude = "done" => Len(slot_gets) = 1)

AggregatedReasoning ==
    IF ReasoningFailed THEN <<>>
    ELSE ConcatInOrder(TextsOf(dsYielded, "reasoning"))
\* C3: however process_deepseek completes (a "content" chunk, a failure of the
\* stream, or the stream just ending), its None is on output_queue only after
\* it has written the aggregated reasoning to claude_queue.
C3_HandoffBeforeSignal ==
    DeepseekSignalled => slot_puts = << AggregatedReasoning >>

\* C4: in streaming mode, when the reasoning chunks are followed by a
\* "content" chunk, the text process_claude gets from claude_queue is the
\* texts of those reasoning chunks, each once, in the order they were yielded.
C4_HandoffIsConcatenation ==
    (Streaming /\ dsExit = "transition" /\ slot_gets # <<>>) =>
        slot_gets = << ConcatInOrder(TextsOf(dsYielded, "reasoning")) >>
C4_Witness ==
    /\ Streaming /\ dsExit = "transition"
    /\ TextsOf(dsYielded, "reasoning") = << <<"a">>, <<"b">> >>
    /\ slot_gets = << <<"a", "b">> >>

\* C5: in streaming mode, when the reasoning stream raises (before or after
\* reasoning chunks), "" is what is put on claude_queue, process_claude puts the
\* fallback text in the synthetic message, claude's stream_chat is still
\* called, and the session is not aborted: it stops only once the terminal
\* frame has been yielded.
C5_ReasoningFailureNotFatal ==
    (Streaming /\ ReasoningFailed) =>
        /\ slot_puts = << <<>> >>
        /\ slot_gets # <<>> =>
            /\ ClaudeInvoked
            /\ Last(claude_messages).role = "assistant"
            /\ Last(claude_messages).content = Embedding(FallbackText)
        /\ Quiescent =>
            /\ slot_gets = << <<>> >>
            /\ ClaudeInvoked
            /\ StreamEnded
            /\ Last(yielded) = DoneFrame
C5_Witness ==
    /\ Streaming /\ ReasoningFailed /\ StreamEnded
    /\ Len(dsYielded) = 2
    /\ ConcatInOrder(TextsOf(dsYielded, "reasoning")) # <<>>
    /\ Last(claude_messages).content = Embedding(FallbackText)

\* C6: in aggregated mode, as in streaming mode, when the reasoning stream
\* raises or yields no reasoning chunk before the "content" chunk, the
\* synthetic message given to claude embeds the fallback text, never an empty
\* reasoning.
C6_AggregatedFallback ==
    (/\ Aggregated /\ ClaudeInvoked
     /\ \/ ReasoningFailed
        \/ dsExit = "transition" /\ NumOf(dsYielded, "reasoning") = 0) =>
        Last(claude_messages).content = Embedding(FallbackText)

IsSystem(message) == "role" \in DOMAIN message /\ message.role = "system"
NonSystem == { i \in 1..Len(messages) : ~ IsSystem(messages[i]) }
Rank(i) == Cardinality({ j \in NonSystem : j <= i })
\* C7: in both modes, for N caller messages of which k have role system, the
\* list given to claude has N - k + 1 entries, none of role system, the
\* other messages in their original order, and the synthetic assistant message
\* last.
C7_SystemStripped ==
    ClaudeInvoked =>
        /\ Len(claude_messages)
             = (Len(messages)
                  - Cardinality({ i \in 1..Len(messages) : IsSystem(messages[i]) })) + 1
        /\ \A i \in 1..Len(claude_messages) : ~ IsSystem(claude_messages[i])
        /\ \A i \in NonSystem : claude_messages[Rank(i)] = messages[i]
        /\ Last(claude_messages)
             = [role |-> "assistant", content |-> Embedding(reasoning)]
C7_Witness ==
    /\ ClaudeInvoked
    /\ Len(messages) = 2
    /\ IsSystem(messages[1])
    /\ "role" \notin DOMAIN messages[2]
    /\ Len(claude_messages) = 2

AnswerFrames(items) == SelectSeq(items, IsAnswerEvent)
ExpectedAnswerFrames ==
    [i \in 1..Len(clYielded) |->
        [frame |-> "data", object |-> "chat.completion.chunk",
         model |-> "claude_model",
         delta |-> [role |-> "assistant", content |-> clYielded[i].text]]]
\* C8: in streaming mode, when claude's stream raises after j answer chunks,
\* the caller gets exactly the j answer frames of those chunks, nothing is
\* raised to the caller, process_claude still puts its None, and the stream
\* stops only once it has yielded them and then the terminal frame.
C8_AnswerFailureNotFatal ==
    (Streaming /\ AnswerFailed) =>
        /\ ClaudeSignalled
        /\ result = NoResult
        /\ AnswerFrames(yielded \o output_queue) = ExpectedAnswerFrames
        /\ Quiescent =>
            /\ StreamEnded
            /\ AnswerFrames(yielded) = ExpectedAnswerFrames
            /\ Last(yielded) = DoneFrame
C8_Witness ==
    /\ Streaming /\ AnswerFailed /\ StreamEnded
    /\ Len(clYielded) = 2
    /\ Len(AnswerFrames(yielded)) = 2

\* C9: in aggregated mode, when claude's stream raises (also after answer
\* chunks), chat_completions_without_stream raises to its caller and returns
\* no response, partial or not.
C9_AnswerFailureRaised ==
    (Aggregated /\ AnswerFailed) => result = [kind |-> "raise"]
C9_Witness ==
    /\ Aggregated /\ AnswerFailed
    /\ answer # <<>>
    /\ result.kind = "raise"

\* C10: in aggregated mode a failure of the reasoning stream is never raised:
\* the call does not stop before claude's stream_chat has been called and,
\* when that succeeds, one response is returned; the call raises only when
\* claude's stream raised.
C10_ReasoningFailureNotRaised ==
    Aggregated =>
        /\ result.kind = "raise" => AnswerFailed
        /\ (ReasoningFailed /\ Quiescent) =>
            /\ ClaudeInvoked
            /\ result.kind \in { "return", "raise" }
        /\ (ReasoningFailed /\ clExit = "exhausted") =>
            /\ result.kind = "return"
            /\ result.value.message.content
                 = ConcatInOrder(TextsOf(clYielded, "answer"))
C10_Witness ==
    /\ Aggregated /\ ReasoningFailed
    /\ result.kind = "return"
    /\ result.value.message.content # <<>>
\* the None items of a sequence of queue items
Nones(items) == SelectSeq(items, LAMBDA item : item = None)
\* 1 when a task is over, having put its None; 0 before
Over(pc) == IF pc = "done" THEN 1 ELSE 0
\* C11: in streaming mode the terminal frame is yielded only after both
\* process_deepseek and process_claude have put their None: when it is yielded
\* the loop has taken exactly two None, one of each task, and a task that is
\* over, however it ended, has put exactly one None.
C11_MarkerAfterBothSignals ==
    Streaming =>
        /\ finished_tasks + Len(Nones(output_queue))
             = Over(pcDeepseek) + Over(pcClaude)
        /\ Positions(yielded, DoneFrame) # {} =>
            /\ finished_tasks = 2
            /\ Nones(output_queue) = <<>>
            /\ DeepseekSignalled /\ dsExit # "none"
            /\ ClaudeSignalled /\ clExit # "none"
C11_Witness ==
    /\ StreamEnded
    /\ ReasoningFailed /\ clExit = "exhausted"
    /\ finished_tasks = 2
    /\ Last(yielded) = DoneFrame
\* C12: in streaming mode process_claude is held back by claude_queue: though
\* both tasks are started together, claude's stream_chat is not called and no
\* answer frame is put on output_queue before process_deepseek has put the
\* reasoning on claude_queue.
C12_AnswerGatedOnHandoff ==
    (/\ Streaming
     /\ \/ ClaudeInvoked
        \/ clYielded # <<>>
        \/ AnswerFrames(yielded \o output_queue) # <<>>) =>
        /\ slot_puts # <<>>
        /\ slot_gets = slot_puts
C12_Witness ==
    /\ Streaming /\ ClaudeInvoked
    /\ dsExit = "transition"
    /\ slot_gets = << <<"a">> >>
    /\ AnswerFrames(output_queue) # <<>>
ReasoningFrames(items) == SelectSeq(items, IsReasoningEvent)
ExpectedReasoningFrames ==
    LET texts == TextsOf(dsYielded, "reasoning")
    IN  [i \in 1..Len(texts) |->
            [frame |-> "data", object |-> "chat.completion.chunk",
             model |-> "deepseek_model",
             delta |-> [role |-> "assistant", reasoning_content |-> texts[i],
                        content |-> <<>>]]]
\* C13: in streaming mode the "content" chunk is never put in a frame and the
\* reasoning stream is not read past it: the reasoning frames are one per
\* reasoning chunk, with its text, and when neither stream raises the frames
\* before the terminal frame are those and one answer frame per answer chunk,
\* with its text (2 + 2 chunks: 4 frames and the terminal frame).
C13_TransitionNotEmitted ==
    Streaming =>
        /\ NumOf(dsYielded, "content") <= 1
        /\ NumOf(dsYielded, "content") = 1 =>
             (Last(dsYielded).kind = "content" /\ pcDeepseek = "done")
        /\ ReasoningFrames(yielded \o output_queue) = ExpectedReasoningFrames
        /\ (StreamEnded /\ dsExit = "transition" /\ clExit = "exhausted") =>
            /\ Len(yielded)
                 = NumOf(dsYielded, "reasoning") + NumOf(clYielded, "answer") + 1
            /\ ReasoningFrames(yielded) = ExpectedReasoningFrames
            /\ AnswerFrames(yielded) = ExpectedAnswerFrames
            /\ Last(yielded) = DoneFrame
C13_Witness ==
    /\ StreamEnded /\ dsExit = "transition" /\ clExit = "exhausted"
    /\ NumOf(dsYielded, "reasoning") = 2
    /\ NumOf(clYielded, "answer") = 2
    /\ Len(yielded) = 5
\* C14: in streaming mode the generator yields the items of output_queue in the
\* order they were put, so under every interleaving of the two tasks the
\* frames of one stage reach the caller in the order its stream yielded the
\* chunks: what was yielded, followed by what is still queued, is the frames
\* of the chunks in their order.
C14_StageOrderKept ==
    Streaming =>
        /\ ReasoningFrames(yielded) \o ReasoningFrames(output_queue)
             = ExpectedReasoningFrames
        /\ AnswerFrames(yielded) \o AnswerFrames(output_queue)
             = ExpectedAnswerFrames
C14_Witness ==
    /\ Streaming
    /\ TextsOf(dsYielded, "reasoning") = << <<"b">>, <<"a">> >>
    /\ TextsOf(clYielded, "answer") = << <<"a">>, <<"b">> >>
    /\ Len(ReasoningFrames(yielded)) = 2
    /\ Len(AnswerFrames(yielded)) = 2
\* C15: in streaming mode both tasks, once started, run to their end even when
\* the caller stops reading the generator at any point: a put on output_queue
\* never makes a task wait, so both tasks eventually put their None whatever
\* the generator does.
C15_TasksRunToCompletion ==
    /\ [](Streaming /\ pcDeepseek = "loop" => ENABLED ProcessDeepseek)
    /\ [](Streaming /\ pcClaude = "stream" => ENABLED ProcessClaude)
    /\ [](Streaming => <>(DeepseekSignalled /\ ClaudeSignalled))
\* C16: every response chat_completions_without_stream returns has
\* prompt_tokens, completion_tokens and total_tokens equal to -1, whatever the
\* streams yielded, and its content is the answer fragments put end to end in
\* the order claude's stream yielded them.
C16_SentinelUsageAndWholeAnswer ==
    (Aggregated /\ result.kind = "return") =>
        /\ result.value.usage.prompt_tokens = -1
        /\ result.value.usage.completion_tokens = -1
        /\ result.value.usage.total_tokens = -1
        /\ result.value.message.content
             = ConcatInOrder(TextsOf(clYielded, "answer"))
C16_Witness ==
    /\ Aggregated /\ result.kind = "return"
    /\ TextsOf(clYielded, "answer") = << <<"b">>, <<"a">> >>
    /\ result.value.message.content = << "b", "a" >>
    /\ result.value.usage.total_tokens = -1
\* C17: in streaming mode, under every interleaving of the two tasks, every
\* reasoning frame comes before every answer frame in what the generator
\* yields (and in what is still queued behind it).
C17_ReasoningBeforeAnswer ==
    Streaming =>
        LET all == yielded \o output_queue
        IN  \A i, j \in 1..Len(all) :
                (IsReasoningEvent(all[i]) /\ IsAnswerEvent(all[j])) => i < j
C17_Witness ==
    /\ StreamEnded
    /\ Len(ReasoningFrames(yielded)) = 2
    /\ Len(AnswerFrames(yielded)) = 2
    /\ IsReasoningEvent(yielded[2])
    /\ IsAnswerEvent(yielded[3])
\* C18: the None of a task is the last item it ever puts on output_queue, so
\* once the generator has taken the second None the queue is empty and stays
\* so: every frame either task put has been yielded, once, before the terminal
\* frame, and none is left behind.
C18_NothingLeftBehind ==
    Streaming =>
        /\ ClaudeSignalled =>
             (output_queue = <<>> \/ Last(output_queue) = None)
        /\ \A i, j \in 1..Len(output_queue) :
             (i < j /\ output_queue[i] = None) =>
                 ~ IsReasoningEvent(output_queue[j])
        /\ finished_tasks = 2 =>
            /\ output_queue = <<>>
            /\ ReasoningFrames(yielded) = ExpectedReasoningFrames
            /\ AnswerFrames(yielded) = ExpectedAnswerFrames
        /\ StreamEnded =>
             Len(yielded) = Len(dsYielded) - NumOf(dsYielded, "content")
                              + Len(clYielded) + 1
C18_Witness ==
    /\ StreamEnded
    /\ finished_tasks = 2
    /\ output_queue = <<>>
    /\ AnswerFailed
    /\ Len(yielded) = 4
\* the list that follows from the caller's messages and a reasoning text alone
ListFor(text) ==
    LET kept == NonSystem
        k == Cardinality(kept)
    IN  [n \in 1..(k + 1) |->
            IF n = k + 1
              THEN [role |-> "assistant", content |-> Embedding(text)]
              ELSE messages[CHOOSE i \in kept :
                                Cardinality({ j \in kept : j <= i }) = n]]
\* the reasoning text that follows from what the reasoning stream did alone
TextFor ==
    IF ReasoningFailed THEN FallbackText
    ELSE ConcatInOrder(TextsOf(dsYielded, "reasoning"))
\* C19: for the same messages and the same behaviour of the reasoning stream,
\* the two modes give claude the same message list whenever the reasoning
\* stream yields a non-empty reasoning followed by a "content" chunk, or
\* raises: in both modes the list, and the reasoning text in its synthetic
\* message, are one and the same function of the messages and of what the
\* reasoning stream did.
C19_SameListInBothModes ==
    (/\ ClaudeInvoked
     /\ \/ ReasoningFailed
        \/ /\ dsExit = "transition"
           /\ ConcatInOrder(TextsOf(dsYielded, "reasoning")) # <<>>) =>
        LET text == TextFor
        IN  /\ reasoning = text
            /\ claude_messages = ListFor(text)
C19_Witness ==
    /\ Aggregated /\ ClaudeInvoked /\ ReasoningFailed
    /\ TextsOf(dsYielded, "reasoning") = << <<"a">> >>
    /\ Len(messages) = 2 /\ IsSystem(messages[2])
    /\ Last(claude_messages).content = Embedding(FallbackText)
\* C20: neither mode changes the caller's messages list: no step of either
\* method changes its length or its entries, system messages included; the
\* synthetic message and the filtering are applied to a copy only.
C20_CallerMessagesUntouched == [][messages' = messages]_vars
C20_Witness ==
    /\ Aggregated /\ result.kind = "raise"
    /\ Len(messages) = 2
    /\ IsSystem(messages[1]) /\ ~ IsSystem(messages[2])
    /\ Len(claude_messages) = 2
    /\ Last(claude_messages).role = "assistant"
=============================================================================
